---------------------------- MODULE Spec2Model ----------------------------
(***************************************************************************)
(* Energy-efficiency monitor backend: the Data Store, the Prediction       *)
(* Adapter, the Scoring Engine with its metric cache and threshold         *)
(* configuration, and the HTTP handlers that drive them.                   *)
(*                                                                         *)
(* Readings are counted, not valued: a cell meter[u][b] holds the number   *)
(* of readings of building b for utility u; an upload batch is BatchRows   *)
(* readings long.  A cached building metric is identified by the data it   *)
(* was aggregated from (feature rows, weather version).  Scores and        *)
(* thresholds are integers in units of 1/ScoreUnit.                        *)
(*                                                                         *)
(* Every HTTP handler is `async def` and calls the services synchronously  *)
(* (no await inside), so one handler is one atomic action.                 *)
(***************************************************************************)
EXTENDS Integers, Sequences, FiniteSets, TLC

\* ------------------------------------------------------------------ bounds
MaxIngestions == 2    \* uploads that append rows to the store
MaxFaults == 1        \* recomputations that raise an unforeseen exception
MaxPortfolio == 3     \* buildings in the cache entry a score query reads

\* ------------------------------------------------------- program constants
ScoreUnit == 100      \* the score 1.0; scores and thresholds are hundredths
LagMax == 672         \* the longest lag, energy_lag_672
MinObservations == 96    \* _compute_confidence: fewer observations are "low"
FullObservations == 672  \* _compute_confidence: fewer are at most "medium"

NaN == 0 - 1000000    \* np.nan: a float that is no number (no score, metric or
                      \* threshold of the model comes near this value)

SeqLength == 48       \* LSTM_GAS_SEQ_LENGTH
ValidPairs == 10      \* `valid.sum() > 10` of _compute_metrics
MAX_TOOL_ITERATIONS == 5

\* DEFAULT_THRESHOLDS
DefaultThresholds == [caution |-> 60, warning |-> 80, anomaly |-> 90]

BatchRows == LagMax   \* readings in one upload batch (a week at 15 minutes)

Utilities == {"ELECTRICITY", "GAS"}
EmptyUtility == ""                       \* a utility cell that is falsy in Python
RowUtilities == Utilities \cup {EmptyUtility}
Buildings == {1, 2}

\* model_map of _load_models, restricted to Utilities, in its dict order
ModelOrder == <<"ELECTRICITY", "GAS">>

VARIABLES
    models,               \* utilities whose tree-ensemble file was loaded
    lstm_gas,             \* PredictionService._lstm_gas is not None
    meter,                \* DataService._meter_data, as reading counts
    weather,              \* DataService._weather, as a batch count (0: empty frame)
    metrics,              \* ScoringService._metrics
    available_utilities,  \* ScoringService._available_utilities
    thresholds,           \* ScoringService._thresholds
    ingestions,           \* uploads that appended rows so far
    faults,               \* handlers that met an unforeseen exception so far
    portfolio,            \* the valued metrics of the utility a score query reads
    args,                 \* the arguments of a direct call of _compute_confidence
    resp,                 \* what the last handler or call returned
    buildings             \* DataService._buildings, as rows per building number

vars == <<models, lstm_gas, meter, weather, metrics, available_utilities,
          thresholds, ingestions, faults, portfolio, args, resp, buildings>>

\* no direct call is being made
NoArgs == [n_observations |-> 0, std_residual |-> 0, portfolio_std |-> 0]

\* ------------------------------------------------------------ sequences
Range(s) == {s[i] : i \in 1..Len(s)}

RECURSIVE SetToSortedSeq(_)
SetToSortedSeq(S) ==
    IF S = {} THEN <<>>
    ELSE LET m == CHOOSE x \in S : \A y \in S : x <= y
         IN <<m>> \o SetToSortedSeq(S \ {m})

\* the subsequences of s of length 1 or 2
ShortSubSeqs(s) ==
    {<<s[i]>> : i \in 1..Len(s)}
        \cup {<<s[p[1]], s[p[2]]>> :
                 p \in {q \in (1..Len(s)) \X (1..Len(s)) : q[1] < q[2]}}

\* --------------------------------------------------------------- floats
IsNaN(x) == x = NaN

\* a < b on floats: False as soon as one side is NaN
FloatLt(a, b) == ~IsNaN(a) /\ ~IsNaN(b) /\ a < b

\* a > b on floats
FloatGt(a, b) == FloatLt(b, a)

\* a * b on floats
FloatMul(a, b) == IF IsNaN(a) \/ IsNaN(b) THEN NaN ELSE a * b

\* abs(a) on floats
FloatAbs(a) == IF IsNaN(a) THEN NaN ELSE IF a < 0 THEN 0 - a ELSE a

\* The order numpy sorts floats in: NaN after every number
SortsBefore(a, b) == ~IsNaN(a) /\ (IsNaN(b) \/ a < b)

RECURSIVE SumSeq(_)
SumSeq(s) == IF s = <<>> THEN 0 ELSE Head(s) + SumSeq(Tail(s))

\* values.sum() on floats
FloatSum(s) == IF \E i \in 1..Len(s) : IsNaN(s[i]) THEN NaN ELSE SumSeq(s)

Sign(x) == IF x < 0 THEN 0 - 1 ELSE IF x > 0 THEN 1 ELSE 0

\* floor of the square root
Isqrt(x) == CHOOSE r \in 0..x : r * r <= x /\ (r + 1) * (r + 1) > x

\* ------------------------------------------------------------ Data Store
\* DataService._meter_data is an empty frame without columns until a file or an
\* upload gave it rows; indexing it by column then raises KeyError.
MeterHasColumns(mt) == \E u \in RowUtilities, b \in Buildings : mt[u][b] > 0

\* The same for DataService._weather and its "date" column.
WeatherHasColumns(wx) == wx > 0

\* len(get_meter_data(building_number, utility))
Readings(mt, u, b) ==
    IF u \in RowUtilities /\ b \in Buildings THEN mt[u][b] ELSE 0

\* append_meter_data: one batch for building b in each utility of us
append_meter_data(mt, b, us) ==
    [u \in RowUtilities |->
        [c \in Buildings |->
            IF u \in Range(us) /\ c = b THEN mt[u][c] + BatchRows
                                        ELSE mt[u][c]]]

\* append_weather_data
append_weather_data(wx) == wx + 1

\* building_metadata.csv with one row for every building
OneRowEach == [b \in Buildings |-> 1]

\* append_building_data: one more row for building number b
append_building_data(bld, b) == [bld EXCEPT ![b] = @ + 1]

\* df.merge(bld, left_on="simscode", right_on="buildingnumber", how="left") of
\* build_features: a reading is repeated for every metadata row of its
\* building, and kept once when there is none
JoinedRows(n, b) ==
    IF b \in Buildings /\ buildings[b] > 1 THEN n * buildings[b] ELSE n

\* ------------------------------------------------------- Feature Builder
\* build_features for one building: the rows that keep all four lags
FeatureRows(n) == IF n > LagMax THEN n - LagMax ELSE 0

\* ---------------------------------------------------- Prediction Adapter
\* PredictionService._models keys, after _load_models
ModelKeys(ms, lstm) == ms \cup (IF lstm THEN {"GAS"} ELSE {})

\* get_available_utilities: list(self._models.keys())
get_available_utilities(ms, lstm) ==
    SelectSeq(ModelOrder, LAMBDA u : u \in ModelKeys(ms, lstm))

\* The tree model is used whenever its file was loaded
MutTreeWhenLoaded(ms, lstm, u) ==
    IF u \in ms THEN "XGBRegressor"
    ELSE IF u = "GAS" /\ lstm THEN "lstm" ELSE "None"

\* The model predict_all and predict_building run for a registered utility:
\* the sequence model `if utility == "GAS" and self._lstm_gas is not None`,
\* else self._models[utility], which is the tree ensemble of the utility or
\* the None that _load_models registers for GAS next to the checkpoint
SelectedModel(ms, lstm, u) ==
    IF u = "GAS" /\ lstm THEN "lstm"
    ELSE IF u \in ms THEN "XGBRegressor" ELSE "None"

NoFault == [kind |-> "none", k |-> 0]
PredictFault == [kind |-> "predict", k |-> 0]
AggregateFault(k) == [kind |-> "aggregate", k |-> k]
Faults == {NoFault, PredictFault} \cup {AggregateFault(k) : k \in 0..(Cardinality(Buildings) - 1)}

\* _predict_gas_lstm(df): a building of n rows gives the windows that end at
\* its rows SeqLength..n, one prediction each; df.merge(pred_df, how="left")
\* keeps every row of df, the rows without a window with predicted = NaN (and
\* so does the early return when there is no window at all).
_predict_gas_lstm(rows) ==
    [rows |-> rows,
     predicted |-> [b \in DOMAIN rows |->
                       IF rows[b] >= SeqLength THEN rows[b] - SeqLength + 1
                       ELSE 0]]

\* self._predict(model, X): the tree ensemble predicts every row
_predict(rows) == [rows |-> rows, predicted |-> rows]

\* predict_all(utility): the error it raises, or "ok" with the feature rows of
\* each building of the result and how many of them carry a prediction.  A
\* fault of kind "predict" is an exception other than the foreseen ones,
\* raised by feature construction or inference.
predict_all(ms, lstm, mt, wx, u, f) ==
    LET rows == [b \in Buildings |->
                    FeatureRows(JoinedRows(Readings(mt, u, b), b))]
        none == [b \in Buildings |-> 0]
        Raise(err) == [err |-> err, rows |-> none, predicted |-> none]
        df == IF SelectedModel(ms, lstm, u) = "lstm"
                THEN _predict_gas_lstm(rows)
              ELSE _predict(rows)
    IN  IF u \notin ModelKeys(ms, lstm) THEN Raise("ModelNotAvailableError")
        ELSE IF ~MeterHasColumns(mt) THEN Raise("KeyError")
        ELSE IF \A b \in Buildings : Readings(mt, u, b) = 0
          THEN Raise("BuildingDataNotFoundError")
        ELSE IF ~WeatherHasColumns(wx) THEN Raise("KeyError")
        ELSE IF \A b \in Buildings : rows[b] = 0
          THEN Raise("InsufficientDataError")
        ELSE IF SelectedModel(ms, lstm, u) = "None"
          THEN Raise("AttributeError")
        ELSE IF f.kind = "predict" THEN Raise("Exception")
        ELSE [err |-> "ok", rows |-> df.rows, predicted |-> df.predicted]

\* --------------------------------------------------------- Scoring Engine
NoEntry == [present |-> FALSE, bldgs |-> <<>>]
EmptyMetrics == [u \in Utilities |-> NoEntry]

\* The metric of one building: the part of the store it was aggregated from.
Metric(b, rows, wx) == [bn |-> b, n_observations |-> rows, wx |-> wx]

\* for bn, group in pred_df.groupby("simscode"): ascending building numbers
PredictedBuildings(p) == SetToSortedSeq({b \in Buildings : p.rows[b] > 0})

\* _compute_metrics(utility, pred_df): the entry is emptied, then filled one
\* building at a time; a fault of kind "aggregate" raises after k buildings.
_compute_metrics(m, u, p, wx, f) ==
    LET bs == PredictedBuildings(p)
        fails == f.kind = "aggregate" /\ f.k < Len(bs)
        done == IF fails THEN SubSeq(bs, 1, f.k) ELSE bs
    IN  [metrics |-> [m EXCEPT ![u] =
                        [present |-> TRUE,
                         bldgs |-> [i \in 1..Len(done) |->
                                      Metric(done[i], p.rows[done[i]], wx)]]],
         err |-> IF fails THEN "Exception" ELSE "ok"]

\* `except Exception` of recompute and of _compute_all
MutCaughtForeseen(err) ==
    err \in {"ModelNotAvailableError", "BuildingDataNotFoundError",
             "InsufficientDataError"}
Caught(err) == err # "ok"

\* The engine while a handler runs: the cache, the list of available
\* utilities, the utilities a recomputation was started for, the faults that
\* fired, whether an exception is leaving recompute() (raised), and the
\* recomputation warnings of the UploadResult.
Engine(m, av) ==
    [metrics |-> m, available_utilities |-> av, touched |-> {}, fired |-> 0,
     raised |-> FALSE, warnings |-> 0]

\* The body of the try block for one utility; append says whether the
\* utility joins _available_utilities on success (_compute_all only).
TryCompute(e, ms, lstm, mt, wx, u, f, append) ==
    LET p == predict_all(ms, lstm, mt, wx, u, f)
        c == _compute_metrics(e.metrics, u, p, wx, f)
        t == e.touched \cup {u}
    IN  IF e.raised THEN e
        ELSE IF p.err # "ok"
          THEN [e EXCEPT !.touched = t,
                         !.fired = IF p.err = "Exception" THEN @ + 1 ELSE @,
                         !.raised = ~Caught(p.err)]
        ELSE IF c.err # "ok"
          THEN [e EXCEPT !.metrics = c.metrics, !.touched = t,
                         !.fired = @ + 1, !.raised = ~Caught(c.err)]
        ELSE [e EXCEPT !.metrics = c.metrics, !.touched = t,
                       !.available_utilities =
                           IF append THEN Append(@, u) ELSE @]

RECURSIVE ComputeEach(_, _, _, _, _, _, _)
ComputeEach(e, ms, lstm, mt, wx, us, fs) ==
    IF us = <<>> THEN e
    ELSE ComputeEach(TryCompute(e, ms, lstm, mt, wx, Head(us), fs[Head(us)], TRUE),
                     ms, lstm, mt, wx, Tail(us), fs)

\* _compute_all
_compute_all(e, ms, lstm, mt, wx, fs) ==
    ComputeEach(e, ms, lstm, mt, wx, get_available_utilities(ms, lstm), fs)

\* `if utility:` of recompute
Truthy(utility) == utility # EmptyUtility

\* recompute(utility)
recompute(e, ms, lstm, mt, wx, utility, fs) ==
    IF Truthy(utility)
      THEN TryCompute(e, ms, lstm, mt, wx, utility,
                      IF utility \in Utilities THEN fs[utility] ELSE NoFault,
                      FALSE)
      ELSE _compute_all([e EXCEPT !.metrics = EmptyMetrics,
                                  !.available_utilities = <<>>],
                        ms, lstm, mt, wx, fs)

\* get_building_scores(utility, method): the building numbers of the records
\* returned (none for an absent or empty entry)
ScoredBuildings(m, u) ==
    IF u \notin Utilities \/ ~m[u].present THEN <<>>
    ELSE [i \in 1..Len(m[u].bldgs) |-> m[u].bldgs[i].bn]

\* get_building_detail_scores(bn): the utilities of its byUtility list
DetailUtilities(m, av, b) ==
    SelectSeq(av, LAMBDA u : b \in Range(ScoredBuildings(m, u)))


\* ------------------------------------------------------- Upload Service
NoFaults == [u \in Utilities |-> NoFault]
\* at most one utility meets an unforeseen exception in one handler
FaultPlans ==
    {fs \in [Utilities -> Faults] :
        Cardinality({u \in Utilities : fs[u] # NoFault}) <= 1}

\* The loop of _ingest_meter over affected_utilities: each recompute is in a
\* try of its own, which turns an exception into a warning.
RECURSIVE RecomputeAffected(_, _, _, _, _, _, _)
RecomputeAffected(e, ms, lstm, mt, wx, us, fs) ==
    IF us = <<>> THEN e
    ELSE LET r == recompute(e, ms, lstm, mt, wx, Head(us), fs)
             caught == [r EXCEPT !.raised = FALSE,
                                 !.warnings = IF r.raised THEN @ + 1 ELSE @]
         IN  RecomputeAffected(caught, ms, lstm, mt, wx, Tail(us), fs)

\* What a handler answered: the UploadResult of an upload, the records of a
\* score query.
Response(op, rows_ingested, warnings, records) ==
    [op |-> op, rows_ingested |-> rows_ingested, warnings |-> warnings,
     records |-> records]

\* The meter uploads tried: one batch for one building in one or two
\* utilities; affected_utilities lists them in the order of their first row.
RowOrder == <<"ELECTRICITY", "GAS", EmptyUtility>>
MeterUploads ==
    {[building |-> b, utilities |-> us] :
        b \in Buildings, us \in ShortSubSeqs(RowOrder)}

\* _ingest_meter from `append_meter_data` on: the engine after the recomputes
IngestMeter(m, av, ms, lstm, mt, wx, up, fs) ==
    RecomputeAffected(Engine(m, av), ms, lstm,
                      append_meter_data(mt, up.building, up.utilities), wx,
                      up.utilities, fs)

\* _ingest_weather from `append_weather_data` on
IngestWeather(m, av, ms, lstm, mt, wx, fs) ==
    LET r == recompute(Engine(m, av), ms, lstm, mt, append_weather_data(wx),
                       EmptyUtility, fs)
    IN  [r EXCEPT !.raised = FALSE, !.warnings = IF r.raised THEN @ + 1 ELSE @]

\* POST /upload/meter with rows that pass validation
UploadMeter(up, fs) ==
    LET e == IngestMeter(metrics, available_utilities, models, lstm_gas,
                         meter, weather, up, fs)
    IN  /\ ingestions < MaxIngestions
        /\ EmptyUtility \in Range(up.utilities) => up.building = 1
        /\ ingestions' = ingestions + 1
        /\ fs # NoFaults => faults < MaxFaults /\ e.fired > 0
        /\ meter' = append_meter_data(meter, up.building, up.utilities)
        /\ metrics' = e.metrics
        /\ available_utilities' = e.available_utilities
        /\ faults' = IF fs # NoFaults THEN faults + 1 ELSE faults
        /\ resp' = Response("upload_meter", Len(up.utilities) * BatchRows,
                            e.warnings, <<>>)
        /\ UNCHANGED <<models, lstm_gas, weather, thresholds, portfolio, args, buildings>>

\* POST /upload/meter without a required column, or without a valid row:
\* _ingest_meter returns before it appends.
UploadMeterRejected ==
    /\ resp' = Response("upload_meter", 0, 0, <<>>)
    /\ UNCHANGED <<models, lstm_gas, meter, weather, metrics,
                   available_utilities, thresholds, ingestions, faults,
                   portfolio, args, buildings>>

\* POST /upload/weather with valid rows
UploadWeather(fs) ==
    LET e == IngestWeather(metrics, available_utilities, models, lstm_gas,
                           meter, weather, fs)
    IN  /\ ingestions < MaxIngestions
        /\ ingestions' = ingestions + 1
        /\ fs # NoFaults => faults < MaxFaults /\ e.fired > 0
        /\ weather' = append_weather_data(weather)
        /\ metrics' = e.metrics
        /\ available_utilities' = e.available_utilities
        /\ faults' = IF fs # NoFaults THEN faults + 1 ELSE faults
        /\ resp' = Response("upload_weather", 1, e.warnings, <<>>)
        /\ UNCHANGED <<models, lstm_gas, meter, thresholds, portfolio, args, buildings>>

\* POST /upload/weather without a required column, or without a valid row
UploadWeatherRejected ==
    /\ resp' = Response("upload_weather", 0, 0, <<>>)
    /\ UNCHANGED <<models, lstm_gas, meter, weather, metrics,
                   available_utilities, thresholds, ingestions, faults,
                   portfolio, args, buildings>>

\* POST /upload/buildings with a row for building number b: _ingest_building
\* appends it and returns; it starts no recomputation
UploadBuilding(b) ==
    /\ ingestions < MaxIngestions
    /\ ingestions' = ingestions + 1
    /\ buildings' = append_building_data(buildings, b)
    /\ resp' = Response("upload_building", 1, 0, <<>>)
    /\ UNCHANGED <<models, lstm_gas, meter, weather, metrics,
                   available_utilities, thresholds, faults, portfolio, args>>

\* GET /buildings?utility=u: get_building_scores
ListBuildings(u) ==
    /\ resp' = Response("list_buildings", 0, 0, ScoredBuildings(metrics, u))
    /\ UNCHANGED <<models, lstm_gas, meter, weather, metrics,
                   available_utilities, thresholds, ingestions, faults,
                   portfolio, args, buildings>>

\* GET /buildings/{b}: get_building_detail_scores
GetBuilding(b) ==
    /\ resp' = Response("get_building", 0, 0,
                        DetailUtilities(metrics, available_utilities, b))
    /\ UNCHANGED <<models, lstm_gas, meter, weather, metrics,
                   available_utilities, thresholds, ingestions, faults,
                   portfolio, args, buildings>>

\* ---------------------------------------------------------------- startup
\* The data directory: per utility no meter file, or files that hold two
\* batches for every building; no weather file, or one batch.
InitialMeters ==
    {mt \in [RowUtilities -> [Buildings -> {0, 2 * BatchRows}]] :
        /\ \A b \in Buildings : mt[EmptyUtility][b] = 0
        /\ \A u \in Utilities, b, c \in Buildings : mt[u][b] = mt[u][c]}

\* The model directory: the tree-ensemble files and the sequence checkpoint
ModelSetups ==
    {[trees |-> {"ELECTRICITY"}, lstm |-> FALSE],
     [trees |-> {"ELECTRICITY"}, lstm |-> TRUE]}

\* init_services: DataService, PredictionService, then ScoringService, whose
\* constructor runs _compute_all on an empty cache.
Init ==
    /\ \E s \in ModelSetups : models = s.trees /\ lstm_gas = s.lstm
    /\ meter \in InitialMeters
    /\ weather \in {0, 1}
    /\ thresholds = DefaultThresholds
    /\ ingestions = 0
    /\ buildings = OneRowEach
    /\ faults = 0
    /\ LET e == _compute_all(Engine(EmptyMetrics, <<>>), models, lstm_gas,
                             meter, weather, NoFaults)
       IN  /\ metrics = e.metrics
           /\ available_utilities = e.available_utilities
    /\ portfolio = <<>>
    /\ args = NoArgs
    /\ resp = Response("startup", 0, 0, <<>>)

Next ==
    \/ \E up \in MeterUploads, fs \in FaultPlans : UploadMeter(up, fs)
    \/ UploadMeterRejected
    \/ \E fs \in FaultPlans : UploadWeather(fs)
    \/ UploadWeatherRejected
    \/ \E u \in Utilities : ListBuildings(u)
    \/ \E b \in Buildings : GetBuilding(b)

Spec == Init /\ [][Next]_vars

\* The uploads of all three tables, none of which meets an unforeseen
\* exception
NextStore ==
    \/ \E up \in MeterUploads : UploadMeter(up, NoFaults)
    \/ UploadWeather(NoFaults)
    \/ \E b \in Buildings : UploadBuilding(b)

SpecStore == Init /\ [][NextStore]_vars

\* ------------------------------------------------ Threshold Configuration
\* update_thresholds that overwrites one key only
MutUpdateCautionOnly(t, payload) == [t EXCEPT !.caution = payload.caution]

\* ScoringService.update_thresholds: self._thresholds = dict(thresholds)
update_thresholds(t, payload) == payload

\* ScoringService.get_thresholds: dict(self._thresholds)
get_thresholds(t) == t

\* The values tried in the fields of a payload, in units of 1/ScoreUnit
ThresholdValues == {0, 50, 60, 80, 90, ScoreUnit}
Payloads ==
    [caution : ThresholdValues, warning : ThresholdValues,
     anomaly : ThresholdValues]

\* ThresholdsPayload.must_be_between_0_and_1, for one field
must_be_between_0_and_1(v) == 0 < v /\ v < ScoreUnit

\* ThresholdsPayload.model_post_init
model_post_init(payload) ==
    payload.caution < payload.warning /\ payload.warning < payload.anomaly

\* Construction of a ThresholdsPayload from a request body: the field
\* validators, then model_post_init
ThresholdsPayload(payload) ==
    /\ must_be_between_0_and_1(payload.caution)
    /\ must_be_between_0_and_1(payload.warning)
    /\ must_be_between_0_and_1(payload.anomaly)
    /\ model_post_init(payload)

\* What a settings handler or a direct call answered
Reply(op, status, body) == [op |-> op, status |-> status, body |-> body]

\* --------------------------------------------------------- score queries
\* _status_from_score with the default thresholds for every query
MutStatusFromDefault(score, t) ==
    IF score < DefaultThresholds.caution THEN "normal"
    ELSE IF score < DefaultThresholds.warning THEN "caution"
    ELSE IF score < DefaultThresholds.anomaly THEN "warning"
    ELSE "anomaly"

\* _status_from_score(score, thresholds)
_status_from_score(score, t) ==
    IF FloatLt(score, t.caution) THEN "normal"
    ELSE IF FloatLt(score, t.warning) THEN "caution"
    ELSE IF FloatLt(score, t.anomaly) THEN "warning"
    ELSE "anomaly"

\* np.clip(score, 0, 1)
Clip(score) ==
    IF IsNaN(score) THEN NaN
    ELSE IF score < 0 THEN 0 ELSE IF score > ScoreUnit THEN ScoreUnit ELSE score

\* An insertion that puts a position before the positions of equal score
MutInsertBeforeEqual(sorted, i, scores) ==
    LET before == {k \in 1..Len(sorted) : scores[sorted[k]] > scores[i]}
        n == Cardinality(before)
    IN  SubSeq(sorted, 1, n) \o <<i>> \o SubSeq(sorted, n + 1, Len(sorted))

\* One step of the stable descending sort: position i goes after every
\* position already placed whose score is not smaller.
InsertDescending(sorted, i, scores) ==
    LET before == {k \in 1..Len(sorted) : scores[sorted[k]] >= scores[i]}
        n == Cardinality(before)
    IN  SubSeq(sorted, 1, n) \o <<i>> \o SubSeq(sorted, n + 1, Len(sorted))

\* sorted(building_numbers, key=primary_scores.get, reverse=True), as the
\* cache positions in sorted order; positions are inserted in cache order.
RECURSIVE SortDescending(_, _)
SortDescending(k, scores) ==
    IF k = 0 THEN <<>>
    ELSE InsertDescending(SortDescending(k - 1, scores), k, scores)

\* rank_map: the 1-based place of cache position i in sorted_bns
RankOf(sorted, i) == CHOOSE r \in 1..Len(sorted) : sorted[r] = i

\* get_building_scores on a cache entry with the primary scores pf: one record
\* per building, in cache order
get_building_scores(pf, t) ==
    LET scores == [i \in 1..Len(pf) |-> pf[i].score]
        sorted_bns == SortDescending(Len(pf), scores)
    IN  [i \in 1..Len(pf) |->
            [building_number |-> pf[i].bn,
             score |-> Clip(scores[i]),
             status |-> _status_from_score(Clip(scores[i]), t),
             rank |-> RankOf(sorted_bns, i),
             total_buildings |-> Len(pf)]]

\* The weather sensitivity _compute_metrics gives a building that has
\* `valid` rows with both a temperature and a residual, corr being what
\* abs_res[valid].corr(temp[valid]) returns for them (in hundredths; NaN
\* when either series is constant)
weather_sensitivity(valid, corr) ==
    IF valid > ValidPairs
      THEN (IF IsNaN(corr) THEN 0 ELSE FloatAbs(corr))
    ELSE 0

\* ------------------------------------------- metrics of one building
\* The loop body of _compute_metrics on the group of one building whose n
\* rows all have the prediction 1.0 and the residual g.residual (NaN: the
\* rows have no prediction).  Fractions are hundredths; latest_* are left out.
GroupMetric(bn, g) ==
    LET r == g.residual
        positive == FloatGt(r, 0)
    IN  [bn |-> bn,
         mean_residual |-> r,
         mean_abs_residual |-> FloatAbs(r),
         std_residual |-> IF g.n > 1 /\ IsNaN(r) THEN NaN ELSE 0,
         positive_ratio |-> IF positive THEN ScoreUnit ELSE 0,
         excess_ratio |-> IF IsNaN(r) THEN 0 ELSE r,
         consistency |-> IF positive THEN ScoreUnit ELSE 0,
         peak_excess |-> IF positive THEN r ELSE 0,
         weather_sensitivity |->
             weather_sensitivity(IF IsNaN(r) THEN 0 ELSE g.n, NaN),
         total_excess_energy |->
             LET x == FloatMul(r, g.gross_area)
             IN  IF FloatGt(0, x) THEN 0 ELSE x,
         volatility |-> 0,
         gross_area |-> g.gross_area,
         n_observations |-> g.n]

\* ------------------------------------------------ the scoring methods
\* SIGNAL_WEIGHTS, in hundredths, and its keys in dict order
SIGNAL_WEIGHTS ==
    [excess_ratio |-> 30, consistency |-> 20, peak_excess |-> 20,
     weather_sensitivity |-> 15, volatility |-> 15]
WeightedSignals ==
    <<"excess_ratio", "consistency", "peak_excess", "weather_sensitivity",
      "volatility">>

\* SIGNAL_META
SIGNAL_META ==
    [excess_ratio |->
         [label |-> "Excess Ratio",
          description |-> "How much more energy this building uses compared to what was predicted"],
     positive_ratio |->
         [label |-> "Overconsumption Frequency",
          description |-> "How often the building uses more energy than expected (higher = more frequent waste)"],
     consistency |->
         [label |-> "Consistency",
          description |-> "Whether the excess energy use is a daily pattern, not just occasional spikes"],
     weather_sensitivity |->
         [label |-> "Weather Sensitivity",
          description |-> "Whether the building's energy waste gets worse with extreme temperatures"],
     peak_excess |->
         [label |-> "Peak Excess",
          description |-> "How severe the worst energy waste moments are"],
     volatility |->
         [label |-> "Volatility",
          description |-> "How unstable the building's energy consumption pattern is"],
     total_excess_energy |->
         [label |-> "Total Excess Energy",
          description |-> "The absolute amount of energy wasted, considering building size"]]

\* A ranking that gives tied values the same place (the number of smaller
\* values)
MutOrderTiesShared(values, i) ==
    Cardinality({j \in 1..Len(values) : SortsBefore(values[j], values[i])})

\* np.argsort(np.argsort(values))[i]: the 0-based place of position i in the
\* sorted order; equal values keep their order of position (arrays this
\* short are sorted by insertion)
ArgsortOrder(values, i) ==
    Cardinality({j \in 1..Len(values) :
                    \/ SortsBefore(values[j], values[i])
                    \/ ~SortsBefore(values[i], values[j]) /\ j < i})

\* _percentile_ranks(values), in hundredths
_percentile_ranks(values) ==
    LET n == Len(values)
    IN  IF n <= 1 THEN [i \in 1..n |-> 0]
        ELSE [i \in 1..n |-> (ArgsortOrder(values, i) * ScoreUnit) \div (n - 1)]

\* _sigmoid, sampled at z = -1, 0 and 1: the model keeps the sign of a
\* z-score and not its size
_sigmoid(z) == IF z < 0 THEN 27 ELSE IF z = 0 THEN ScoreUnit \div 2 ELSE 73

\* The sign of (values[i] - mean) / std over a column of numbers; 0 where
\* the column is constant (std 0 is replaced by 1)
ZSign(values, i) == Sign(Len(values) * values[i] - SumSeq(values))

\* The column of one metric key over the cache entry m
Column(m, key) == [i \in 1..Len(m) |-> m[i][key]]

\* _score_multi_signal_weighted
_score_multi_signal_weighted(m) ==
    [i \in 1..Len(m) |->
        _sigmoid(SumSeq([k \in 1..Len(WeightedSignals) |->
                           SIGNAL_WEIGHTS[WeightedSignals[k]]
                               * ZSign(Column(m, WeightedSignals[k]), i)]))]

\* _score_investment_impact
_score_investment_impact(m) ==
    _percentile_ranks(
        [i \in 1..Len(m) |->
            LET x == FloatMul(m[i].mean_residual, m[i].gross_area)
            IN  IF FloatGt(0, x) THEN 0 ELSE x])

\* _score_zscore_portfolio: mu and sigma are NaN as soon as one value is
_score_zscore_portfolio(m) ==
    LET values == Column(m, "mean_abs_residual")
    IN  IF IsNaN(FloatSum(values)) THEN [i \in 1..Len(m) |-> NaN]
        ELSE IF \A i, j \in 1..Len(m) : values[i] = values[j]
          THEN [i \in 1..Len(m) |-> ScoreUnit \div 2]
        ELSE [i \in 1..Len(m) |-> _sigmoid(ZSign(values, i))]

\* _score_multi_signal_percentile
_score_multi_signal_percentile(m) ==
    [i \in 1..Len(m) |->
        SumSeq([k \in 1..Len(WeightedSignals) |->
                  _percentile_ranks(Column(m, WeightedSignals[k]))[i]])
            \div Len(WeightedSignals)]

\* A choice of method that follows the call before and not the argument
MutMethodFromLastCall(m, scoring_method) ==
    IF resp.op = "get_building_scores" THEN _score_investment_impact(m)
    ELSE _score_multi_signal_weighted(m)

\* method_map.get(scoring_method, self._score_multi_signal_weighted)(metrics)
ScoringMethods ==
    {"multi_signal_weighted", "investment_impact", "zscore_portfolio",
     "multi_signal_percentile"}
PrimaryScores(m, scoring_method) ==
    IF scoring_method = "investment_impact" THEN _score_investment_impact(m)
    ELSE IF scoring_method = "zscore_portfolio" THEN _score_zscore_portfolio(m)
    ELSE IF scoring_method = "multi_signal_percentile"
      THEN _score_multi_signal_percentile(m)
    ELSE _score_multi_signal_weighted(m)

\* np.std(all_stds) if len(all_stds) > 1 else 0.0
PortfolioStd(stds) ==
    LET n == Len(stds)
        s == FloatSum(stds)
    IN  IF n <= 1 THEN 0
        ELSE IF IsNaN(s) THEN NaN
        ELSE Isqrt(SumSeq([i \in 1..n |-> (n * stds[i] - s) * (n * stds[i] - s)])
                       \div n) \div n

\* signal_keys of _compute_signal_details
DetailSignals ==
    {"excess_ratio", "positive_ratio", "consistency", "weather_sensitivity",
     "peak_excess"}

\* _compute_signal_details(m, all_metrics) for the building at position i
_compute_signal_details(m, i) ==
    [key \in DetailSignals |->
        [value |-> m[i][key],
         percentile |->
             (Cardinality({j \in 1..Len(m) : m[j][key] <= m[i][key]}) * ScoreUnit)
                 \div Len(m),
         label |-> SIGNAL_META[key].label,
         description |-> SIGNAL_META[key].description]]

\* ------------------------------------------- settings router and queries
\* PUT /settings/thresholds: the body becomes a ThresholdsPayload before the
\* handler runs; a body that fails validation is answered 422 and the handler
\* does not run.
PutThresholds(payload) ==
    /\ IF ThresholdsPayload(payload)
         THEN /\ thresholds' = update_thresholds(thresholds, payload)
              /\ resp' = Reply("put_thresholds", 200, get_thresholds(thresholds'))
         ELSE /\ thresholds' = thresholds
              /\ resp' = Reply("put_thresholds", 422, get_thresholds(thresholds))
    /\ UNCHANGED <<models, lstm_gas, meter, weather, metrics,
                   available_utilities, ingestions, faults, portfolio, args, buildings>>

\* GET /settings/thresholds
GetThresholds ==
    /\ resp' = Reply("get_thresholds", 200, get_thresholds(thresholds))
    /\ UNCHANGED <<models, lstm_gas, meter, weather, metrics,
                   available_utilities, thresholds, ingestions, faults,
                   portfolio, args, buildings>>

\* GET /buildings: get_building_scores over the cached entry
ListBuildingScores ==
    /\ resp' = Reply("list_buildings", 200,
                     get_building_scores(portfolio, thresholds))
    /\ UNCHANGED <<models, lstm_gas, meter, weather, metrics,
                   available_utilities, thresholds, ingestions, faults,
                   portfolio, args, buildings>>

\* A direct call of ScoringService.update_thresholds, as a caller inside the
\* process makes it
UpdateThresholdsCall(payload) ==
    /\ thresholds' = update_thresholds(thresholds, payload)
    /\ resp' = Response("update_thresholds", 0, 0, <<>>)
    /\ UNCHANGED <<models, lstm_gas, meter, weather, metrics,
                   available_utilities, ingestions, faults, portfolio, args, buildings>>

\* A direct call of ScoringService.recompute(utility)
RecomputeCall(utility) ==
    LET e == recompute(Engine(metrics, available_utilities), models, lstm_gas,
                       meter, weather, utility, NoFaults)
    IN  /\ metrics' = e.metrics
        /\ available_utilities' = e.available_utilities
        /\ resp' = Response("recompute", 0, 0, <<>>)
        /\ UNCHANGED <<models, lstm_gas, meter, weather, thresholds,
                       ingestions, faults, portfolio, args, buildings>>

\* The cached entries tried: up to MaxPortfolio buildings in cache order
\* (ascending building number), each with a primary score of the method asked
ScoreValues == {0, 60, 80, ScoreUnit}
Portfolios ==
    UNION {[1..n -> ScoreValues] : n \in 0..MaxPortfolio}
PortfolioEntry(scores) ==
    [i \in 1..Len(scores) |-> [bn |-> i, score |-> scores[i]]]

\* A running service whose cache holds one utility with the entry pf
InitScoring(pfs) ==
    /\ models = {"ELECTRICITY"}
    /\ lstm_gas = FALSE
    /\ meter = [u \in RowUtilities |-> [b \in Buildings |-> 0]]
    /\ weather = 0
    /\ metrics = EmptyMetrics
    /\ available_utilities = <<>>
    /\ thresholds = DefaultThresholds
    /\ ingestions = 0
    /\ buildings = OneRowEach
    /\ faults = 0
    /\ \E scores \in pfs : portfolio = PortfolioEntry(scores)
    /\ args = NoArgs
    /\ resp = Reply("startup", 200, DefaultThresholds)

NextSettings ==
    \/ \E payload \in Payloads : PutThresholds(payload)
    \/ GetThresholds
    \/ ListBuildingScores

\* The settings router and the score query over an entry of two buildings
InitSettings == InitScoring([1..2 -> ScoreValues])
SpecSettings == InitSettings /\ [][NextSettings]_vars

\* The score query over every entry of up to MaxPortfolio buildings
InitRanking == InitScoring(Portfolios)
NextRanking ==
    \/ ListBuildingScores
    \/ GetThresholds
SpecRanking == InitRanking /\ [][NextRanking]_vars

\* ------------------------------------------------------------ confidence
\* _compute_confidence without the portfolio_std > 0 guard of its last rule
MutConfidenceUnguarded(n, std, portfolio_std) ==
    IF n < MinObservations THEN "low"
    ELSE IF n < FullObservations /\ portfolio_std > 0 /\ std > 2 * portfolio_std
      THEN "low"
    ELSE IF n < FullObservations THEN "medium"
    ELSE IF 2 * std > 3 * portfolio_std THEN "medium"
    ELSE "high"

\* _compute_confidence(m, portfolio_std), with n = m["n_observations"] and
\* std = m["std_residual"]; std > 1.5 * portfolio_std is compared doubled.
_compute_confidence(n, std, portfolio_std) ==
    IF n < MinObservations THEN "low"
    ELSE IF n < FullObservations /\ portfolio_std > 0 /\ std > 2 * portfolio_std
      THEN "low"
    ELSE IF n < FullObservations THEN "medium"
    ELSE IF portfolio_std > 0 /\ 2 * std > 3 * portfolio_std THEN "medium"
    ELSE "high"

\* The arguments tried: observation counts around both cut points, and
\* standard deviations on both sides of 1.5 and 2 times the portfolio's
ConfidenceArgs ==
    [n_observations : {0, MinObservations - 1, MinObservations,
                       FullObservations - 1, FullObservations,
                       FullObservations + 1},
     std_residual : 0..4,
     portfolio_std : 0..2]

\* A call of _compute_confidence with the arguments args
ComputeConfidenceCall ==
    /\ resp' = Reply("_compute_confidence", 200,
                     _compute_confidence(args.n_observations, args.std_residual,
                                         args.portfolio_std))
    /\ UNCHANGED <<models, lstm_gas, meter, weather, metrics,
                   available_utilities, thresholds, ingestions, faults,
                   portfolio, args, buildings>>

InitConfidence ==
    /\ models = {"ELECTRICITY"}
    /\ lstm_gas = FALSE
    /\ meter = [u \in RowUtilities |-> [b \in Buildings |-> 0]]
    /\ weather = 0
    /\ metrics = EmptyMetrics
    /\ available_utilities = <<>>
    /\ thresholds = DefaultThresholds
    /\ ingestions = 0
    /\ buildings = OneRowEach
    /\ faults = 0
    /\ portfolio = <<>>
    /\ args \in ConfidenceArgs
    /\ resp = Reply("startup", 200, "")

SpecConfidence == InitConfidence /\ [][ComputeConfidenceCall]_vars

\* get_building_scores(utility, scoring_method) on the cache entry m of the
\* utility: the records, in the order of the cache
BuildingScores(m, scoring_method, t) ==
    LET primary_scores == PrimaryScores(m, scoring_method)
        investment_scores == _score_investment_impact(m)
        portfolio_std == PortfolioStd(Column(m, "std_residual"))
        ranked == get_building_scores(
                      [i \in 1..Len(m) |->
                          [bn |-> m[i].bn, score |-> primary_scores[i]]], t)
    IN  [i \in 1..Len(m) |->
            [building_number |-> ranked[i].building_number,
             score |-> ranked[i].score,
             status |-> ranked[i].status,
             investment_score |-> Clip(investment_scores[i]),
             confidence |-> _compute_confidence(m[i].n_observations,
                                                m[i].std_residual,
                                                portfolio_std),
             rank |-> ranked[i].rank,
             total_buildings |-> ranked[i].total_buildings,
             signals |-> _compute_signal_details(m, i)]]

\* confidence_order of get_building_detail_scores
ConfidenceOrder == [low |-> 0, medium |-> 1, high |-> 2]

\* get_building_detail_scores(building_number) over a cache that holds the
\* one available utility with the entry m: its byUtility record, and the
\* overall values taken from it
DetailScores(m, building_number, t) ==
    LET at == {i \in 1..Len(m) : m[i].bn = building_number}
    IN  IF at = {}
          THEN [overallScore |-> 0, investmentScore |-> 0,
                confidence |-> "high", rank |-> 0, totalBuildings |-> 0,
                byUtility |-> <<>>]
        ELSE
          LET i == CHOOSE k \in at : TRUE
              all_scores == _score_multi_signal_weighted(m)
              score == Clip(all_scores[i])
              inv_score == Clip(_score_investment_impact(m)[i])
              confidence ==
                  _compute_confidence(m[i].n_observations, m[i].std_residual,
                                      PortfolioStd(Column(m, "std_residual")))
              rank == RankOf(SortDescending(Len(m), all_scores), i)
              best == FloatGt(score, 0)
          IN  [overallScore |-> IF best THEN score ELSE 0,
               investmentScore |-> IF FloatGt(inv_score, 0) THEN inv_score ELSE 0,
               confidence |->
                   IF ConfidenceOrder[confidence] < ConfidenceOrder["high"]
                     THEN confidence ELSE "high",
               rank |-> IF best THEN rank ELSE 0,
               totalBuildings |-> IF best THEN Len(m) ELSE 0,
               byUtility |->
                   <<[score |-> score,
                      status |-> _status_from_score(score, t),
                      investmentScore |-> inv_score,
                      investmentStatus |-> _status_from_score(inv_score, t),
                      confidence |-> confidence,
                      signals |-> _compute_signal_details(m, i)]>>]

\* --------------------------------------- score queries over valued metrics
\* The groups a cache entry is aggregated from: a building above prediction
\* on a large area, one on prediction, one below it, one whose rows have no
\* prediction (fewer rows than the sequence model needs), and one above
\* prediction with a short history
MetricGroups ==
    {[n |-> FullObservations + 1, residual |-> 2, gross_area |-> 3],
     [n |-> FullObservations + 1, residual |-> 0, gross_area |-> 1],
     [n |-> FullObservations + 1, residual |-> 0 - 1, gross_area |-> 1],
     [n |-> SeqLength - 1, residual |-> NaN, gross_area |-> 1],
     [n |-> MinObservations, residual |-> 2, gross_area |-> 1]}

\* The cache entries tried: up to MaxPortfolio buildings, numbered in the
\* order groupby("simscode") yields them
MetricEntries ==
    {[i \in 1..Len(gs) |-> GroupMetric(i, gs[i])] :
        gs \in UNION {[1..n -> MetricGroups] : n \in 0..MaxPortfolio}}

\* A call of get_building_scores(utility, scoring_method) on the utility of
\* the entry
GetBuildingScoresCall(scoring_method) ==
    /\ args' = [scoring_method |-> scoring_method]
    /\ resp' = Reply("get_building_scores", 200,
                     BuildingScores(portfolio, scoring_method, thresholds))
    /\ UNCHANGED <<models, lstm_gas, meter, weather, metrics,
                   available_utilities, thresholds, ingestions, faults,
                   portfolio, buildings>>

\* A call of get_building_detail_scores(building_number)
GetBuildingDetailScoresCall(building_number) ==
    /\ args' = [building_number |-> building_number]
    /\ resp' = Reply("get_building_detail_scores", 200,
                     DetailScores(portfolio, building_number, thresholds))
    /\ UNCHANGED <<models, lstm_gas, meter, weather, metrics,
                   available_utilities, thresholds, ingestions, faults,
                   portfolio, buildings>>

InitMethods ==
    /\ models = {"ELECTRICITY"}
    /\ lstm_gas = FALSE
    /\ meter = [u \in RowUtilities |-> [b \in Buildings |-> 0]]
    /\ weather = 0
    /\ metrics = EmptyMetrics
    /\ available_utilities = <<>>
    /\ thresholds = DefaultThresholds
    /\ ingestions = 0
    /\ buildings = OneRowEach
    /\ faults = 0
    /\ portfolio \in MetricEntries
    /\ args = NoArgs
    /\ resp = Reply("startup", 200, <<>>)

NextMethods ==
    \/ \E scoring_method \in ScoringMethods :
           GetBuildingScoresCall(scoring_method)
    \/ \E building_number \in 1..MaxPortfolio :
           GetBuildingDetailScoresCall(building_number)

SpecMethods == InitMethods /\ [][NextMethods]_vars

\* ------------------------------------------------------- predict router
\* The columns of the weather table the model tells apart: the hour the
\* readings are joined on, and a measurement
WeatherColumns == {"date", "temperature_2m"}

\* weatherOverrides: the keys of the map (its values are JSON scalars); a
\* key that is no column of the weather table is among them
OverrideKeys == WeatherColumns \cup {"temperature"}
OverrideMaps == SUBSET OverrideKeys
NoOverrides == {}

\* `for col, val in weather_overrides.items(): if col in weather.columns:
\* weather[col] = val` of build_features: the columns that become a constant
Overridden(weather_overrides) == weather_overrides \cap WeatherColumns

\* predict_building(building_number, utility, weather_overrides): the
\* exception it raises, or "ok" when it returns the frame of predictions.
\* After an override of "date" the column is no datetime column any more and
\* the merge of the readings with the weather on it raises ValueError.
predict_building(ms, lstm, mt, wx, b, u, weather_overrides) ==
    IF u \notin ModelKeys(ms, lstm) THEN "ModelNotAvailableError"
    ELSE IF ~MeterHasColumns(mt) THEN "KeyError"
    ELSE IF Readings(mt, u, b) = 0 THEN "BuildingDataNotFoundError"
    ELSE IF ~WeatherHasColumns(wx) THEN "KeyError"
    ELSE IF "date" \in Overridden(weather_overrides) THEN "ValueError"
    ELSE IF FeatureRows(JoinedRows(Readings(mt, u, b), b)) = 0
      THEN "InsufficientDataError"
    ELSE IF SelectedModel(ms, lstm, u) = "None" THEN "AttributeError"
    ELSE "ok"

\* The frame predict_building returns: the positions of the readings that
\* keep all lags, which are its timestamps and its actual series, and the
\* weather-derived columns that hold a constant
PredictionFrame(mt, b, u, weather_overrides) ==
    LET n == JoinedRows(Readings(mt, u, b), b)
        df == [c \in {b} |-> FeatureRows(n)]
    IN  [readingtime |-> <<LagMax + 1, n>>,
         energy_per_sqft |-> <<LagMax + 1, n>>,
         predicted |-> IF SelectedModel(models, lstm_gas, u) = "lstm"
                         THEN _predict_gas_lstm(df).predicted[b]
                       ELSE _predict(df).predicted[b],
         constant |-> Overridden(weather_overrides)]

\* PredictResponse: its required fields
PredictResponse ==
    {"buildingNumber", "utility", "predictions", "anomalyScore", "metrics"}

\* The keyword arguments the handler builds its PredictResponse from
ResponseArguments == {"predictions", "anomalyScore", "metrics"}

\* The status POST /predict answers with: the three foreseen errors become
\* HTTPException; any other exception is an internal server error, and so is
\* the PredictResponse built without a required field.
PredictStatus(outcome) ==
    IF outcome \in {"ModelNotAvailableError", "BuildingDataNotFoundError"}
      THEN 404
    ELSE IF outcome = "InsufficientDataError" THEN 422
    ELSE IF outcome = "ok" /\ PredictResponse \subseteq ResponseArguments
      THEN 200
    ELSE 500

\* The requests tried: the buildings of the store and one it never saw, the
\* utilities of the store and one without a model
RequestBuildings == Buildings \cup {Cardinality(Buildings) + 1}
RequestUtilities == Utilities \cup {"STEAM"}

\* A request body without the utility field
Omitted == "(omitted)"

\* PredictRequest.utility: str = "ELECTRICITY"
PredictRequest(utility) == IF utility = Omitted THEN "ELECTRICITY" ELSE utility

\* POST /predict with the body (b, utility, weather_overrides); the detail of
\* an HTTPException is str(e), which names the error that was raised
Predict(b, utility, weather_overrides) ==
    LET outcome == predict_building(models, lstm_gas, meter, weather, b,
                                    PredictRequest(utility), weather_overrides)
    IN  /\ args' = [buildingNumber |-> b, utility |-> utility,
                    weatherOverrides |-> weather_overrides]
        /\ resp' = Reply("predict", PredictStatus(outcome), outcome)
        /\ UNCHANGED <<models, lstm_gas, meter, weather, metrics,
                       available_utilities, thresholds, ingestions, faults,
                       portfolio, buildings>>

\* A direct call of predict_building(building_number, utility,
\* weather_overrides)
PredictBuildingCall(b, u, weather_overrides) ==
    LET outcome == predict_building(models, lstm_gas, meter, weather, b, u,
                                    weather_overrides)
    IN  /\ args' = [building_number |-> b, utility |-> u,
                    weather_overrides |-> weather_overrides]
        /\ resp' = Reply("predict_building", outcome,
                         IF outcome = "ok"
                           THEN PredictionFrame(meter, b, u, weather_overrides)
                         ELSE <<>>)
        /\ UNCHANGED <<models, lstm_gas, meter, weather, metrics,
                       available_utilities, thresholds, ingestions, faults,
                       portfolio, buildings>>

\* The data directory at startup: any number of batches up to two in every
\* cell, and a weather file or none
PredictMeters ==
    {mt \in [RowUtilities -> [Buildings -> {0, BatchRows, 2 * BatchRows}]] :
        \A b \in Buildings : mt[EmptyUtility][b] = 0}

InitPredict ==
    /\ \E st \in ModelSetups : models = st.trees /\ lstm_gas = st.lstm
    /\ meter \in PredictMeters
    /\ weather \in {0, 1}
    /\ thresholds = DefaultThresholds
    /\ ingestions = 0
    /\ buildings = OneRowEach
    /\ faults = 0
    /\ LET e == _compute_all(Engine(EmptyMetrics, <<>>), models, lstm_gas,
                             meter, weather, NoFaults)
       IN  /\ metrics = e.metrics
           /\ available_utilities = e.available_utilities
    /\ portfolio = <<>>
    /\ args = NoArgs
    /\ resp = Reply("startup", 200, "")

NextPredict ==
    \/ \E b \in RequestBuildings, utility \in RequestUtilities \cup {Omitted},
          weather_overrides \in OverrideMaps :
           Predict(b, utility, weather_overrides)
    \/ \E b \in RequestBuildings, u \in RequestUtilities,
          weather_overrides \in OverrideMaps :
           PredictBuildingCall(b, u, weather_overrides)

SpecPredict == InitPredict /\ [][NextPredict]_vars

\* The Scoring Engine driven by direct calls
InitEngine ==
    /\ models = {"ELECTRICITY"}
    /\ lstm_gas = FALSE
    /\ meter \in InitialMeters
    /\ weather \in {0, 1}
    /\ thresholds = DefaultThresholds
    /\ ingestions = 0
    /\ buildings = OneRowEach
    /\ faults = 0
    /\ LET e == _compute_all(Engine(EmptyMetrics, <<>>), models, lstm_gas,
                             meter, weather, NoFaults)
       IN  /\ metrics = e.metrics
           /\ available_utilities = e.available_utilities
    /\ portfolio = <<>>
    /\ args = NoArgs
    /\ resp = Response("startup", 0, 0, <<>>)

NextEngine ==
    \/ \E payload \in Payloads : UpdateThresholdsCall(payload)
    \/ \E u \in Utilities : ListBuildings(u)
    \/ \E b \in Buildings : GetBuilding(b)
    \/ \E utility \in RowUtilities : RecomputeCall(utility)

SpecEngine == InitEngine /\ [][NextEngine]_vars

\* ------------------------------------------------- the sequence model
\* A direct call of PredictionService.predict_all(utility)
PredictAllCall(utility) ==
    LET p == predict_all(models, lstm_gas, meter, weather, utility, NoFault)
    IN  /\ args' = [utility |-> utility]
        /\ resp' = Reply("predict_all", p.err,
                         [rows |-> p.rows, predicted |-> p.predicted])
        /\ UNCHANGED <<models, lstm_gas, meter, weather, metrics,
                       available_utilities, thresholds, ingestions, faults,
                       portfolio, buildings>>

\* The data directory at startup: GAS histories that leave no feature row,
\* one, one fewer than a sequence, exactly a sequence, or a week of them
SequenceRows ==
    {0, LagMax + 1, LagMax + SeqLength - 1, LagMax + SeqLength, 2 * BatchRows}
SequenceMeters ==
    {mt \in [RowUtilities -> [Buildings -> SequenceRows]] :
        \A b \in Buildings :
            /\ mt[EmptyUtility][b] = 0
            /\ mt["ELECTRICITY"][b] \in {0, 2 * BatchRows}}

\* A service whose model directory holds the sequence checkpoint for GAS
InitSequence ==
    /\ models = {"ELECTRICITY"}
    /\ lstm_gas = TRUE
    /\ meter \in SequenceMeters
    /\ weather \in {0, 1}
    /\ thresholds = DefaultThresholds
    /\ ingestions = 0
    /\ buildings = OneRowEach
    /\ faults = 0
    /\ LET e == _compute_all(Engine(EmptyMetrics, <<>>), models, lstm_gas,
                             meter, weather, NoFaults)
       IN  /\ metrics = e.metrics
           /\ available_utilities = e.available_utilities
    /\ portfolio = <<>>
    /\ args = NoArgs
    /\ resp = Reply("startup", "ok", <<>>)

NextSequence ==
    \/ \E utility \in Utilities : PredictAllCall(utility)
    \/ \E utility \in Utilities : RecomputeCall(utility)

SpecSequence == InitSequence /\ [][NextSequence]_vars

\* ----------------------------------------------------- model selection
\* Every model directory: any of the tree-ensemble files, with or without
\* the sequence checkpoint
ModelDirectories ==
    [trees : SUBSET Utilities, lstm : BOOLEAN]

\* predict_all and predict_building under every model directory
SpecModels ==
    /\ \E st \in ModelDirectories : models = st.trees /\ lstm_gas = st.lstm
    /\ meter \in SequenceMeters
    /\ weather = 1
    /\ thresholds = DefaultThresholds
    /\ ingestions = 0
    /\ buildings = OneRowEach
    /\ faults = 0
    /\ LET e == _compute_all(Engine(EmptyMetrics, <<>>), models, lstm_gas,
                             meter, weather, NoFaults)
       IN  /\ metrics = e.metrics
           /\ available_utilities = e.available_utilities
    /\ portfolio = <<>>
    /\ args = NoArgs
    /\ resp = Reply("startup", "ok", <<>>)
    /\ [][\/ \E utility \in Utilities : PredictAllCall(utility)
          \/ \E b \in Buildings, u \in Utilities :
                 PredictBuildingCall(b, u, NoOverrides)]_vars

\* ---------------------------------------------------- weather sensitivity
\* The weather-sensitivity step of _compute_metrics on a building with
\* args.valid valid pairs whose correlation is args.corr
WeatherSensitivityCall ==
    /\ resp' = Reply("weather_sensitivity", 200,
                     weather_sensitivity(args.valid, args.corr))
    /\ UNCHANGED <<models, lstm_gas, meter, weather, metrics,
                   available_utilities, thresholds, ingestions, faults,
                   portfolio, args, buildings>>

\* The step on its own, for every count of valid pairs up to twice the cut
\* and correlations of either sign, none and undefined
SpecSensitivity ==
    /\ models = {"ELECTRICITY"}
    /\ lstm_gas = FALSE
    /\ meter = [u \in RowUtilities |-> [b \in Buildings |-> 0]]
    /\ weather = 0
    /\ metrics = EmptyMetrics
    /\ available_utilities = <<>>
    /\ thresholds = DefaultThresholds
    /\ ingestions = 0
    /\ buildings = OneRowEach
    /\ faults = 0
    /\ portfolio = <<>>
    /\ args \in [valid : 0..(2 * ValidPairs),
                 corr : {NaN, 0 - ScoreUnit, 0 - 50, 0, 50, ScoreUnit}]
    /\ resp = Reply("startup", 200, <<>>)
    /\ [][WeatherSensitivityCall]_vars

\* ------------------------------------------ rounded scores and status
\* In this part scores and thresholds are millionths: a primary score is a
\* float with more digits than the four a record reports.

\* round(score, 4): to the nearest ten-thousandth, a tie to the even one
round4(score) ==
    IF IsNaN(score) THEN NaN
    ELSE LET q == score \div 100
             r == score % 100
         IN  100 * (IF r > 50 \/ (r = 50 /\ q % 2 = 1) THEN q + 1 ELSE q)

\* get_building_scores: the score and the status of the record of a
\* building whose primary score is primary_score
BuildingScoreRecord(primary_score, t) ==
    LET score == IF IsNaN(primary_score) THEN NaN
                 ELSE IF primary_score < 0 THEN 0
                 ELSE IF primary_score > 1000000 THEN 1000000
                 ELSE primary_score
    IN  [score |-> round4(score), status |-> _status_from_score(score, t)]

\* get_building_detail_scores: the score and the status of the byUtility
\* record of the building, from the same primary score
ByUtilityRecord(primary_score, t) ==
    LET score == round4(IF IsNaN(primary_score) THEN NaN
                        ELSE IF primary_score < 0 THEN 0
                        ELSE IF primary_score > 1000000 THEN 1000000
                        ELSE primary_score)
    IN  [score |-> score, status |-> _status_from_score(score, t)]

\* Both queries for the building whose multi_signal_weighted score is
\* args.score, under the stored thresholds
ScoreRecordsCall ==
    /\ resp' = Reply("score_records", 200,
                     [get_building_scores |->
                          BuildingScoreRecord(args.score, thresholds),
                      get_building_detail_scores |->
                          ByUtilityRecord(args.score, thresholds)])
    /\ UNCHANGED <<models, lstm_gas, meter, weather, metrics,
                   available_utilities, thresholds, ingestions, faults,
                   portfolio, args, buildings>>

\* The two records for the scores _sigmoid gives at the weighted z-scores
\* 0, +-0.15, +-0.3, +-0.5 and +-1 (two buildings that differ in some of
\* the five signals), and at its limits, under thresholds a PUT
\* /settings/thresholds accepts (0 < caution < warning < anomaly < 1)
SpecRecords ==
    /\ models = {"ELECTRICITY"}
    /\ lstm_gas = FALSE
    /\ meter = [u \in RowUtilities |-> [b \in Buildings |-> 0]]
    /\ weather = 0
    /\ metrics = EmptyMetrics
    /\ available_utilities = <<>>
    /\ thresholds \in [caution : {268900, 462600, 600000},
                       warning : {731100, 800000},
                       anomaly : {900000, 950000}]
    /\ ingestions = 0
    /\ buildings = OneRowEach
    /\ faults = 0
    /\ portfolio = <<>>
    /\ args \in [score : {0, 268941, 377541, 425557, 462570, 500000, 537430,
                          574443, 622459, 731059, 1000000}]
    /\ resp = Reply("startup", 200, <<>>)
    /\ [][ScoreRecordsCall]_vars

\* ------------------------------------------------------------ chat stream
\* The functions the module app.utils.stream_builder defines
StreamBuilder ==
    {"message_start", "start_step", "finish_step", "finish", "done",
     "text_start", "text_delta", "text_end", "tool_input_start",
     "tool_input_available", "tool_output_available", "error"}

\* What the LLM and the tool do in one iteration of the loop
Turns ==
    {"timeout", "api_error", "stream_error", "stop", "tool_calls",
     "tool_timeout"}

\* ChatService.stream_chat(messages) when iteration i of its loop meets
\* script[i]: the frames the generator yields, named by the function of sse
\* that builds them, the LLM calls it makes, and the exception it ends with
\* ("": it returns).  `yield sse.f(...)` looks f up in the module first, and
\* raises AttributeError when the module has no f; outside the try block of
\* the chunk loop nothing catches it.
stream_chat(script) ==
    LET Start == [frames |-> <<>>, llm_calls |-> 0, raised |-> "",
                  returned |-> FALSE]
        Going(s) == s.raised = "" /\ ~s.returned
        Yield(s, f) ==
            IF ~Going(s) THEN s
            ELSE IF f \in StreamBuilder
              THEN [s EXCEPT !.frames = Append(@, f)]
            ELSE [s EXCEPT !.raised = "AttributeError"]
        Return(s) == IF Going(s) THEN [s EXCEPT !.returned = TRUE] ELSE s
        \* inside `try: async for chunk in stream`: any exception, that of
        \* a missing function included, is answered with error, done, return
        Handled(s, t) ==
            IF t.raised = "" THEN t
            ELSE Return(Yield(Yield([s EXCEPT !.frames = t.frames],
                                    "error"), "done"))
        RECURSIVE Loop(_, _)
        Loop(s, i) ==
            IF ~Going(s) THEN s
            ELSE IF i > MAX_TOOL_ITERATIONS THEN Return(Yield(s, "done"))
            ELSE
              LET thinking == Yield(s, "status")
                  called == IF Going(thinking)
                              THEN [thinking EXCEPT !.llm_calls = @ + 1]
                            ELSE thinking
                  turn == script[i]
              IN  IF turn \in {"timeout", "api_error"}
                    THEN Return(Yield(Yield(called, "error"), "done"))
                  ELSE IF turn = "stream_error"
                    THEN Return(Yield(Yield(called, "error"), "done"))
                  ELSE IF turn = "stop"
                    THEN LET told == Handled(called,
                                            Yield(called, "text_delta"))
                         IN  Return(Yield(told, "done"))
                  ELSE
                    LET started == Yield(Yield(called, "tool_start"),
                                         "status")
                        ended == Handled(called, Yield(started, "tool_end"))
                    IN  Loop(ended, i + 1)
        final == Loop(Yield(Start, "metadata"), 1)
    IN  [frames |-> final.frames, llm_calls |-> final.llm_calls,
         raised |-> final.raised]

\* A run of stream_chat, drained as the chat router's event_generator does
StreamChatCall ==
    /\ resp' = LET run == stream_chat(args.script)
               IN  Reply("stream_chat",
                         IF run.raised = "" THEN "returned" ELSE run.raised,
                         [frames |-> run.frames, llm_calls |-> run.llm_calls])
    /\ UNCHANGED <<models, lstm_gas, meter, weather, metrics,
                   available_utilities, thresholds, ingestions, faults,
                   portfolio, args, buildings>>

\* The chat stream on its own, for every course the iterations can take
SpecChat ==
    /\ models = {"ELECTRICITY"}
    /\ lstm_gas = FALSE
    /\ meter = [u \in RowUtilities |-> [b \in Buildings |-> 0]]
    /\ weather = 0
    /\ metrics = EmptyMetrics
    /\ available_utilities = <<>>
    /\ thresholds = DefaultThresholds
    /\ ingestions = 0
    /\ buildings = OneRowEach
    /\ faults = 0
    /\ portfolio = <<>>
    /\ args \in [script : [1..MAX_TOOL_ITERATIONS -> Turns]]
    /\ resp = Reply("startup", 200, <<>>)
    /\ [][StreamChatCall]_vars

\* ------------------------------------------- recomputation and the cache
\* What a reader of the cache of u is served: the metric records of the entry
CachedMetrics(m, u) == IF m[u].present THEN m[u].bldgs ELSE <<>>

\* The complete metric set of u over a store: every building of the
\* prediction result, aggregated without a failure.
CompleteMetrics(ms, lstm, mt, wx, u) ==
    CachedMetrics(
        _compute_metrics(EmptyMetrics, u,
                         predict_all(ms, lstm, mt, wx, u, NoFault), wx,
                         NoFault).metrics, u)

\* A recomputation pass of u over a store fails: predict_all or
\* _compute_metrics raises.
RecomputeFails(ms, lstm, mt, wx, u, f) ==
    LET p == predict_all(ms, lstm, mt, wx, u, f)
    IN  \/ p.err # "ok"
        \/ _compute_metrics(EmptyMetrics, u, p, wx, f).err # "ok"

\* The cache entry of v after a pass of its own over a store, on a cleared
\* cache: the complete set, or no entry when its prediction fails.
OwnRecomputation(ms, lstm, mt, wx, v) ==
    TryCompute(Engine(EmptyMetrics, <<>>), ms, lstm, mt, wx, v, NoFault,
               TRUE).metrics[v]

\* C3: across every handler that recomputes, a reader of the cached metrics
\* of u is served either the complete set from before the handler or the
\* complete set over the new store, never an emptied or partly filled set.
C3_OldOrNewSnapshot ==
    [][\A u \in Utilities :
          \/ CachedMetrics(metrics', u) = CachedMetrics(metrics, u)
          \/ /\ predict_all(models, lstm_gas, meter', weather', u,
                            NoFault).err = "ok"
             /\ CachedMetrics(metrics', u) =
                    CompleteMetrics(models, lstm_gas, meter', weather', u)]_vars

\* C4: when the recomputation pass of u run by an upload fails, utility-scoped
\* or global, get_building_scores(u) returns no records afterwards and
\* get_building_detail_scores lists u for no building.
C4_FailedUtilityAbsent ==
    [][\A fs \in FaultPlans, u \in Utilities :
          /\ \/ \E up \in MeterUploads :
                    UploadMeter(up, fs) /\ u \in Range(up.utilities)
             \/ UploadWeather(fs)
          /\ RecomputeFails(models, lstm_gas, meter', weather', u, fs[u])
          => /\ ScoredBuildings(metrics', u) = <<>>
             /\ \A b \in Buildings :
                    u \notin Range(DetailUtilities(metrics',
                                                   available_utilities', b))]_vars

\* After a global pass under the fault plan fs, the entry of every utility
\* that met no fault of its own is the result of its own recomputation.
GlobalPassIsolated(fs) ==
    \A v \in Utilities :
        fs[v] = NoFault
        => metrics'[v] = OwnRecomputation(models, lstm_gas, meter', weather', v)

\* C5: no upload reports an exception that left recompute() (its try blocks
\* have nothing to catch); a utility-scoped pass leaves the entry of every
\* other utility as it was; after a global pass the entry of every utility
\* that met no fault of its own is the result of its own recomputation.
C5_FailureIsolated ==
    [][/\ resp'.warnings = 0
       /\ meter' # meter
              => \A up \in MeterUploads :
                     /\ resp'.rows_ingested = Len(up.utilities) * BatchRows
                     /\ meter' = append_meter_data(meter, up.building, up.utilities)
                     => \A fs \in FaultPlans :
                            /\ (fs = NoFaults) = (faults' = faults)
                            /\ UploadMeter(up, fs)
                            => IF EmptyUtility \in Range(up.utilities)
                                 THEN GlobalPassIsolated(fs)
                                 ELSE \A v \in Utilities \ Range(up.utilities) :
                                          metrics'[v] = metrics[v]
       /\ weather' # weather
              => \A fs \in FaultPlans :
                     /\ (fs = NoFaults) = (faults' = faults)
                     /\ UploadWeather(fs)
                     => GlobalPassIsolated(fs)]_vars

\* C5 witness: a weather upload whose global pass met a fault in ELECTRICITY
\* and recomputed both buildings of GAS.
C5_Witness ==
    /\ resp.op = "upload_weather"
    /\ faults > 0
    /\ metrics["ELECTRICITY"] = NoEntry
    /\ Len(CachedMetrics(metrics, "GAS")) = Cardinality(Buildings)

\* C6: a meter upload that appends rows starts a recomputation for exactly
\* the utilities of its rows; a weather upload that appends rows starts one
\* for every utility with a model; an upload that appends nothing changes
\* neither the store nor the cache.
C6_RecomputeTriggers ==
    [][/\ \A fs \in FaultPlans, up \in MeterUploads :
              UploadMeter(up, fs)
              => IngestMeter(metrics, available_utilities, models, lstm_gas,
                             meter, weather, up, fs).touched
                     = Range(up.utilities)
       /\ \A fs \in FaultPlans :
              UploadWeather(fs)
              => IngestWeather(metrics, available_utilities, models, lstm_gas,
                               meter, weather, fs).touched
                     = ModelKeys(models, lstm_gas)
       /\ resp'.rows_ingested = 0
              => UNCHANGED <<meter, weather, metrics, available_utilities>>]_vars

\* ------------------------------------------------ thresholds and status
\* The triples the configuration admits: every value in (0, 1) exclusive and
\* caution < warning < anomaly
ValidTriple(t) ==
    /\ \A v \in {t.caution, t.warning, t.anomaly} : 0 < v /\ v < ScoreUnit
    /\ t.caution < t.warning
    /\ t.warning < t.anomaly

C2_StoredThresholdsOrdered == ValidTriple(thresholds)

OutcomeInOrder(b, u) ==
    IF u \notin ModelKeys(models, lstm_gas) THEN "ModelNotAvailableError"
    ELSE IF Readings(meter, u, b) = 0 THEN "BuildingDataNotFoundError"
    ELSE IF FeatureRows(Readings(meter, u, b)) = 0 THEN "InsufficientDataError"
    ELSE "ok"

\* C7: a predict request fails with ModelNotAvailable (404) when the utility
\* has no model, else with BuildingDataNotFound (404) when the building has
\* no raw reading, else with InsufficientData (422) when no feature row is
\* left, and else predict_building returns; the detail names the error.
C7_PredictOutcomeOrder ==
    [][\A b \in RequestBuildings, u \in RequestUtilities :
          Predict(b, u, NoOverrides)
          => /\ resp'.body = OutcomeInOrder(b, u)
             /\ resp'.body \in {"ModelNotAvailableError",
                                "BuildingDataNotFoundError"}
                    => resp'.status = 404
             /\ resp'.body = "InsufficientDataError" => resp'.status = 422]_vars

\* ---------------------------------------------------------- confidence rule
\* The first matching rule, with the last comparison made for every
\* portfolio_std
ConfidenceAsClaimed(n, std, portfolio_std) ==
    IF n < MinObservations THEN "low"
    ELSE IF n < FullObservations /\ portfolio_std > 0 /\ std > 2 * portfolio_std
      THEN "low"
    ELSE IF n < FullObservations THEN "medium"
    ELSE IF n >= FullObservations /\ 2 * std > 3 * portfolio_std THEN "medium"
    ELSE "high"

\* C9 as stated: the label is the first matching rule of n < 96 -> low;
\* n < 672, portfolio_std > 0, std > 2 portfolio_std -> low; n < 672 ->
\* medium; n >= 672, std > 1.5 portfolio_std -> medium; else high, also for
\* portfolio_std = 0.
C9_ConfidenceAsStated ==
    resp.op = "_compute_confidence"
    => resp.body = ConfidenceAsClaimed(args.n_observations, args.std_residual,
                                       args.portfolio_std)

\* C9 amended: the fourth rule applies only when portfolio_std > 0, so with
\* portfolio_std = 0 a building with n >= 672 is "high" whatever its std.
C9_ConfidenceRule ==
    resp.op = "_compute_confidence"
    => LET n == args.n_observations
           std == args.std_residual
           pstd == args.portfolio_std
       IN  /\ n < MinObservations => resp.body = "low"
           /\ n >= MinObservations /\ n < FullObservations
                  => resp.body = IF pstd > 0 /\ std > 2 * pstd
                                   THEN "low" ELSE "medium"
           /\ n >= FullObservations
                  => resp.body = IF pstd > 0 /\ 2 * std > 3 * pstd
                                   THEN "medium" ELSE "high"

\* C9 witness: a full history in a portfolio without spread, with a positive
\* std_residual, labelled "high".
C9_Witness ==
    /\ resp.op = "_compute_confidence"
    /\ args.n_observations >= FullObservations
    /\ args.portfolio_std = 0
    /\ args.std_residual > 0
    /\ resp.body = "high"

\* ------------------------------------------------------------------ ranking
\* C10: the ranks of a score query are a permutation of 1..n; a strictly
\* higher primary score has a strictly smaller rank; of two buildings with
\* equal primary scores the one earlier in the cache has the smaller rank.
C10_RankPermutationStable ==
    resp.op = "list_buildings"
    => LET n == Len(portfolio)
       IN  /\ Len(resp.body) = n
           /\ {resp.body[i].rank : i \in 1..n} = 1..n
           /\ \A i, j \in 1..n :
                  /\ portfolio[i].score > portfolio[j].score
                         => resp.body[i].rank < resp.body[j].rank
                  /\ portfolio[i].score = portfolio[j].score /\ i < j
                         => resp.body[i].rank < resp.body[j].rank

\* C10 witness: a query over three buildings, two of them tied below the
\* third, ranked 2, 3 and 1.
C10_Witness ==
    /\ resp.op = "list_buildings"
    /\ Len(portfolio) = 3
    /\ portfolio[1].score = portfolio[2].score
    /\ portfolio[3].score > portfolio[1].score
    /\ resp.body[1].rank = 2
    /\ resp.body[2].rank = 3
    /\ resp.body[3].rank = 1

\* ------------------------------------------------------ order of records
\* C11: the record at position i of the list get_building_scores returns has
\* rank i: the records come in descending order of the primary score.
C11_RecordsInRankOrder ==
    resp.op = "list_buildings"
    => \A i \in 1..Len(resp.body) : resp.body[i].rank = i

C13_ScoresFiniteInUnit ==
    /\ resp.op = "get_building_scores"
       => \A i \in 1..Len(resp.body) :
              /\ resp.body[i].score \in 0..ScoreUnit
              /\ resp.body[i].investment_score \in 0..ScoreUnit
    /\ resp.op = "get_building_detail_scores"
       => /\ resp.body.overallScore \in 0..ScoreUnit
          /\ resp.body.investmentScore \in 0..ScoreUnit
          /\ \A k \in 1..Len(resp.body.byUtility) :
                 /\ resp.body.byUtility[k].score \in 0..ScoreUnit
                 /\ resp.body.byUtility[k].investmentScore \in 0..ScoreUnit

C17_SixSignalDetails ==
    resp.op = "get_building_scores"
    => \A i \in 1..Len(resp.body) :
           /\ DOMAIN resp.body[i].signals
                  = Range(WeightedSignals) \cup {"positive_ratio"}
           /\ \A key \in DOMAIN resp.body[i].signals :
                  DOMAIN resp.body[i].signals[key]
                      = {"value", "percentile", "label", "description"}

\* ------------------------------------------- short histories and sequences
\* C15: when predict_all succeeds for the utility of the sequence model, a
\* building with fewer feature rows than a sequence has no row in the result
\* and no entry in the metric cache of the utility.
C15_ShortBuildingAbsent ==
    /\ resp.op = "predict_all"
    /\ args.utility = "GAS"
    /\ resp.status = "ok"
    => \A b \in Buildings :
           FeatureRows(Readings(meter, "GAS", b)) < SeqLength
           => /\ resp.body.rows[b] = 0
              /\ b \notin Range(ScoredBuildings(metrics, "GAS"))

\* ------------------------------------------------- overrides and responses
\* C16: whatever the override map, predict_building returns the timestamps
\* and the actual series it returns for the same building and utility
\* without overrides.
C16_OverrideKeepsActuals ==
    resp.op = "predict_building"
    => LET b == args.building_number
           u == args.utility
       IN  predict_building(models, lstm_gas, meter, weather, b, u,
                            NoOverrides) = "ok"
           => /\ resp.status = "ok"
              /\ resp.body.readingtime
                     = PredictionFrame(meter, b, u, NoOverrides).readingtime
              /\ resp.body.energy_per_sqft
                     = PredictionFrame(meter, b, u, NoOverrides).energy_per_sqft

\* C18: POST /predict calls predict_building with the building, the utility
\* (ELECTRICITY when the body has none) and the overrides of the body, and
\* when the service returns its frame the response is a success that carries
\* buildingNumber, utility, predictions, anomalyScore and metrics.
C18_PredictResponseComplete ==
    resp.op = "predict"
    => /\ resp.body
              = predict_building(models, lstm_gas, meter, weather,
                                 args.buildingNumber,
                                 IF args.utility = Omitted THEN "ELECTRICITY"
                                 ELSE args.utility,
                                 args.weatherOverrides)
       /\ resp.body = "ok" => resp.status = 200

\* ------------------------------------------------------- cache coherence
\* The cached metrics of every available utility are those of a full
\* computation over the store as it is
Coherent ==
    \A u \in Range(available_utilities) :
        CachedMetrics(metrics, u)
            = CompleteMetrics(models, lstm_gas, meter, weather, u)

\* The utilities an upload starts a recomputation for, from the answer
Triggered ==
    IF resp.op = "upload_weather" /\ resp.rows_ingested > 0
      THEN ModelKeys(models, lstm_gas)
    ELSE IF resp.op = "upload_meter" /\ resp.rows_ingested > 0
      THEN {u \in Utilities : \E b \in Buildings : Readings(meter, u, b) > 0}
    ELSE {}

\* C19: after every ingestion of readings, weather or building metadata
\* into a coherent cache, if no recomputation it started fails, the cached
\* metrics of every available utility are again those of a full computation
\* over the store.
C19_CacheCoherent ==
    [][/\ Coherent
       /\ \A u \in Triggered' :
              ~RecomputeFails(models, lstm_gas, meter', weather', u, NoFault)
       => Coherent']_vars

\* C20: the utilities get_building_scores has records for are the utilities
\* of the available list, and the list names no utility twice.
C20_ScoredIffAvailable ==
    /\ \A u \in Utilities :
           ScoredBuildings(metrics, u) # <<>>
               <=> u \in Range(available_utilities)
    /\ \A i, j \in 1..Len(available_utilities) :
           available_utilities[i] = available_utilities[j] => i = j

\* ------------------------------------------------ one row per reading
\* C21: after any sequence of meter, weather and building-metadata
\* ingestions, build_features yields at most one feature row for every
\* reading the store holds of a building and utility.
C21_OneRowPerReading ==
    \A u \in Utilities, b \in Buildings :
        FeatureRows(JoinedRows(Readings(meter, u, b), b))
            <= Readings(meter, u, b)

\* ------------------------------------------- Feature Builder, row by row
\* Frames are sequences of rows.  readingtime counts quarter hours and a
\* weather date counts hours; readings are positive and even, areas are 0,
\* 1 or 2, so that every division that has a finite result is exact.

Inf == 1000000        \* np.inf, the quotient of a positive number and 0.0

\* The division of two float columns
FloatDiv(x, y) ==
    IF IsNaN(x) \/ IsNaN(y) THEN NaN
    ELSE IF y = 0 THEN (IF x = 0 THEN NaN ELSE IF x > 0 THEN Inf ELSE 0 - Inf)
    ELSE x \div y

\* Series.fillna(value)
fillna(x, value) == IF IsNaN(x) THEN value ELSE x

\* The lags of build_features, in samples
Lags == {4, 24, 96, LagMax}

\* df.groupby("simscode")["energy_per_sqft"].shift(k) at row i of a frame
\* sorted by (simscode, readingtime): the groups are runs of the frame, and
\* the value is that of the row k places up when it is in the same run
GroupShift(frame, i, k) ==
    IF i > k /\ frame[i - k].simscode = frame[i].simscode
      THEN frame[i - k].energy_per_sqft
    ELSE NaN

\* build_features(meter_df, buildings_df, weather_df, weather_overrides):
\* the rows it returns, with the index reset_index gave them in the sorted
\* frame.  Both merges are left joins: a row is repeated for every row of
\* the other frame that has its key, and kept once, with NaN, when none has.
build_features(meter_df, buildings_df, weather_df, weather_overrides) ==
    LET bld == buildings_df
        nb == Len(bld)
        with_bld ==
            SelectSeq(
                [p \in 1..(Len(meter_df) * nb) |->
                    LET r == meter_df[((p - 1) \div nb) + 1]
                        j == ((p - 1) % nb) + 1
                        hit == bld[j].buildingnumber = r.simscode
                        none == \A q \in 1..nb :
                                    bld[q].buildingnumber # r.simscode
                        grossarea == fillna(IF hit THEN bld[j].grossarea
                                            ELSE NaN, 1)
                    IN  [keep |-> hit \/ (none /\ j = 1),
                         simscode |-> r.simscode,
                         readingtime |-> r.readingtime,
                         readingvalue |-> r.readingvalue,
                         grossarea |-> grossarea,
                         energy_per_sqft |->
                             FloatDiv(r.readingvalue, grossarea),
                         weather_hour |-> r.readingtime \div 4]],
                LAMBDA c : c.keep)
        observed ==
            [w \in 1..Len(weather_df) |->
                [date |-> weather_df[w].date,
                 temperature_2m |->
                     IF "temperature_2m" \in DOMAIN weather_overrides
                       THEN weather_overrides["temperature_2m"]
                     ELSE weather_df[w].temperature_2m]]
        nw == Len(observed)
        with_weather ==
            SelectSeq(
                [p \in 1..(Len(with_bld) * nw) |->
                    LET r == with_bld[((p - 1) \div nw) + 1]
                        j == ((p - 1) % nw) + 1
                        hit == observed[j].date = r.weather_hour
                        none == \A q \in 1..nw :
                                    observed[q].date # r.weather_hour
                    IN  [keep |-> hit \/ (none /\ j = 1),
                         simscode |-> r.simscode,
                         readingtime |-> r.readingtime,
                         readingvalue |-> r.readingvalue,
                         grossarea |-> r.grossarea,
                         energy_per_sqft |-> r.energy_per_sqft,
                         temperature_2m |->
                             IF hit THEN observed[j].temperature_2m
                             ELSE NaN]],
                LAMBDA c : c.keep)
        sorted ==
            SortSeq(with_weather,
                    LAMBDA a, b :
                        \/ a.simscode < b.simscode
                        \/ /\ a.simscode = b.simscode
                           /\ a.readingtime < b.readingtime)
        HDD_BASE == 65
        ClipLower(x) == IF IsNaN(x) THEN NaN ELSE IF x < 0 THEN 0 ELSE x
        features ==
            [i \in 1..Len(sorted) |->
                LET r == sorted[i]
                IN  [index |-> i - 1,
                     simscode |-> r.simscode,
                     readingtime |-> r.readingtime,
                     readingvalue |-> r.readingvalue,
                     grossarea |-> r.grossarea,
                     energy_per_sqft |-> r.energy_per_sqft,
                     temperature_2m |-> r.temperature_2m,
                     energy_lag |-> [k \in Lags |-> GroupShift(sorted, i, k)],
                     temp_x_area |-> FloatMul(r.temperature_2m, r.grossarea),
                     hdd |-> IF IsNaN(r.temperature_2m) THEN NaN
                             ELSE ClipLower(HDD_BASE - r.temperature_2m),
                     cdd |-> IF IsNaN(r.temperature_2m) THEN NaN
                             ELSE ClipLower(r.temperature_2m - HDD_BASE)]]
    IN  SelectSeq(features,
                  LAMBDA r : \A k \in Lags : ~IsNaN(r.energy_lag[k]))

\* build_lstm_gas_features(gas_meter_df, elec_meter_df, buildings_df,
\* weather_df, weather_overrides): the rows of build_features on the gas
\* readings, each with the lags of the electricity reading of its building
\* and time (the last of them after the sort), or 0.0 when there is none
build_lstm_gas_features(gas_meter_df, elec_meter_df, buildings_df, weather_df, weather_overrides) ==
    LET df == build_features(gas_meter_df, buildings_df, weather_df,
                             weather_overrides)
        bld == buildings_df
        nb == Len(bld)
        merged ==
            SelectSeq(
                [p \in 1..(Len(elec_meter_df) * nb) |->
                    LET r == elec_meter_df[((p - 1) \div nb) + 1]
                        j == ((p - 1) % nb) + 1
                        hit == bld[j].buildingnumber = r.simscode
                        none == \A q \in 1..nb :
                                    bld[q].buildingnumber # r.simscode
                    IN  [keep |-> hit \/ (none /\ j = 1),
                         simscode |-> r.simscode,
                         readingtime |-> r.readingtime,
                         energy_per_sqft |->
                             FloatDiv(r.readingvalue,
                                      fillna(IF hit THEN bld[j].grossarea
                                             ELSE NaN, 1))]],
                LAMBDA c : c.keep)
        elec ==
            SortSeq(merged,
                    LAMBDA a, b :
                        \/ a.simscode < b.simscode
                        \/ /\ a.simscode = b.simscode
                           /\ a.readingtime < b.readingtime)
        ElecLag(r, k) ==
            LET at == {j \in 1..Len(elec) :
                          /\ elec[j].simscode = r.simscode
                          /\ elec[j].readingtime = r.readingtime}
            IN  IF at = {} THEN 0
                ELSE fillna(GroupShift(elec,
                                       CHOOSE j \in at : \A h \in at : h <= j,
                                       k), 0)
        WithLags(r, lags) ==
            [index |-> r.index, simscode |-> r.simscode,
             readingtime |-> r.readingtime, readingvalue |-> r.readingvalue,
             grossarea |-> r.grossarea, energy_per_sqft |-> r.energy_per_sqft,
             temperature_2m |-> r.temperature_2m, energy_lag |-> r.energy_lag,
             temp_x_area |-> r.temp_x_area, hdd |-> r.hdd, cdd |-> r.cdd,
             elec_energy_lag |-> lags]
    IN  IF df = <<>> THEN df
        ELSE [i \in 1..Len(df) |->
                 WithLags(df[i],
                          [k \in Lags |->
                              IF Len(elec_meter_df) = 0 THEN 0
                              ELSE ElecLag(df[i], k)])]

\* The frames tried.  Readings arrive building 2 first, and for each
\* building a file of its readings from the third on is followed by a late
\* upload of its two oldest; v tells the gas values from the electricity
\* ones.  The histories stop short of the longest lag, just reach it, or
\* pass it by some rows.  The metadata has one row for each building, a
\* missing and a zero area, a second row for building 1 (a re-upload), or no
\* row for building 1.  The weather covers the hours of the kept rows, lacks
\* the last hour, or holds the first hour twice (a re-upload).
FeatureInputs ==
    LET History(b, n, v) ==
            [i \in 1..n |->
                LET t == IF i <= n - 2 THEN i + 1 ELSE i - (n - 2) - 1
                IN  [simscode |-> b, readingtime |-> t,
                     readingvalue |-> 2 * (((7 * t + b + v) % 5) + 1)]]
        MeterFrame(n1, n2, v) == History(2, n2, v) \o History(1, n1, v)
        sizes == {<<LagMax + 1, 0>>, <<LagMax + 6, 5>>, <<LagMax, LagMax + 2>>,
                  <<LagMax + 6, LagMax + 2>>, <<LagMax + 12, 0>>}
        hour == LagMax \div 4
    IN  {[meter_df |-> MeterFrame(n[1], n[2], 0),
          elec_meter_df |-> MeterFrame(e, 0, 1),
          buildings_df |-> b, weather_df |-> w, weather_overrides |-> o] :
            n \in sizes, e \in {0, LagMax + 6},
            b \in {<<[buildingnumber |-> 1, grossarea |-> 2],
                     [buildingnumber |-> 2, grossarea |-> 2]>>,
                   <<[buildingnumber |-> 1, grossarea |-> NaN],
                     [buildingnumber |-> 2, grossarea |-> 0]>>,
                   <<[buildingnumber |-> 1, grossarea |-> 2],
                     [buildingnumber |-> 2, grossarea |-> 2],
                     [buildingnumber |-> 1, grossarea |-> 2]>>,
                   <<[buildingnumber |-> 2, grossarea |-> 2]>>},
            w \in {<<[date |-> hour, temperature_2m |-> 60],
                     [date |-> hour + 1, temperature_2m |-> 80],
                     [date |-> hour + 2, temperature_2m |-> 70]>>,
                   <<[date |-> hour, temperature_2m |-> 60]>>,
                   <<[date |-> hour, temperature_2m |-> 60],
                     [date |-> hour + 1, temperature_2m |-> 80],
                     [date |-> hour, temperature_2m |-> 60]>>},
            o \in {<<>>, [temperature_2m |-> 75]}}

\* A call of build_features on the frames
BuildFeaturesCall ==
    /\ resp' = Reply("build_features", 200,
                     build_features(args.meter_df, args.buildings_df,
                                    args.weather_df, args.weather_overrides))
    /\ UNCHANGED <<models, lstm_gas, meter, weather, metrics,
                   available_utilities, thresholds, ingestions, faults,
                   portfolio, args, buildings>>

\* A call of build_lstm_gas_features on the frames
BuildLstmGasFeaturesCall ==
    /\ resp' = Reply("build_lstm_gas_features", 200,
                     build_lstm_gas_features(args.meter_df, args.elec_meter_df,
                                             args.buildings_df, args.weather_df,
                                             args.weather_overrides))
    /\ UNCHANGED <<models, lstm_gas, meter, weather, metrics,
                   available_utilities, thresholds, ingestions, faults,
                   portfolio, args, buildings>>

\* The feature builder on its own: the frames are chosen once, then built
SpecFeatures ==
    /\ models = {"ELECTRICITY"}
    /\ lstm_gas = TRUE
    /\ meter = [u \in RowUtilities |-> [b \in Buildings |-> 0]]
    /\ weather = 0
    /\ metrics = EmptyMetrics
    /\ available_utilities = <<>>
    /\ thresholds = DefaultThresholds
    /\ ingestions = 0
    /\ buildings = OneRowEach
    /\ faults = 0
    /\ portfolio = <<>>
    /\ args \in FeatureInputs
    /\ resp = Reply("startup", 200, <<>>)
    /\ [][BuildFeaturesCall \/ BuildLstmGasFeaturesCall]_vars

\* ------------------------------------------- claims on the feature frames
\* C22: what a recompute of GAS builds from does not depend on the
\* ELECTRICITY readings: the frame build_lstm_gas_features hands to the
\* sequence model is the one it builds when there is no ELECTRICITY reading.
C22_OwnUtilityOnly ==
    resp.op = "build_lstm_gas_features"
        => resp.body = build_lstm_gas_features(args.meter_df, <<>>,
                                               args.buildings_df,
                                               args.weather_df,
                                               args.weather_overrides)

\* The readings of building b in a frame of readings, and how many of them
\* are older than the time t
ReadingsOf(df, b) == {i \in 1..Len(df) : df[i].simscode = b}
OlderReadings(df, b, t) == {i \in ReadingsOf(df, b) : df[i].readingtime < t}

\* C24: of the N readings of a building build_features keeps exactly one
\* row for each reading that has 672 older ones, max(0, N - 672) rows, and
\* no row of any other reading.
C24_ColdStartRows ==
    resp.op = "build_features"
        => \A b \in Buildings :
               LET N == Cardinality(ReadingsOf(args.meter_df, b))
                   kept == ReadingsOf(resp.body, b)
               IN  /\ Cardinality(kept)
                          = (IF N > LagMax THEN N - LagMax ELSE 0)
                   /\ \A i \in kept :
                          Cardinality(OlderReadings(args.meter_df, b,
                                                    resp.body[i].readingtime))
                              >= LagMax

\* C25: in every row build_features returns, the k-sample lag is the
\* normalized target of the reading of the same building taken k cadence
\* steps before the row's reading.
C25_LagIsKStepsBack ==
    resp.op = "build_features"
        => \A i \in 1..Len(resp.body) : \A k \in Lags :
               LET r == resp.body[i]
               IN  \E j \in ReadingsOf(args.meter_df, r.simscode) :
                       /\ args.meter_df[j].readingtime = r.readingtime - k
                       /\ r.energy_lag[k]
                              = FloatDiv(args.meter_df[j].readingvalue,
                                         r.grossarea)

\* The gross areas the metadata holds for building b (NaN: none)
AreasOf(bld, b) ==
    LET rows == {j \in 1..Len(bld) : bld[j].buildingnumber = b}
    IN  IF rows = {} THEN {NaN} ELSE {bld[j].grossarea : j \in rows}

\* C26: the normalized target of every row is its reading divided by the
\* gross area of its building, the area being taken as 1 when it is missing
\* or zero, and it is neither infinite nor NaN.
C26_TargetByArea ==
    resp.op = "build_features"
        => \A i \in 1..Len(resp.body) :
               LET r == resp.body[i]
               IN  /\ \E a \in AreasOf(args.buildings_df, r.simscode) :
                          r.energy_per_sqft
                              = r.readingvalue
                                    \div (IF IsNaN(a) \/ a = 0 THEN 1 ELSE a)
                   /\ ~IsNaN(r.energy_per_sqft)
                   /\ r.energy_per_sqft \notin {Inf, 0 - Inf}

\* C27: under the override {temperature_2m: v} every row handed to the model
\* (its NaN filled with 0, as predict_building does) has the temperature v,
\* and the product with the area and the degree-days computed from v.
C27_OverrideInEveryRow ==
    /\ resp.op = "build_features"
    /\ "temperature_2m" \in DOMAIN args.weather_overrides
    => \A i \in 1..Len(resp.body) :
           LET r == resp.body[i]
               v == args.weather_overrides["temperature_2m"]
           IN  /\ fillna(r.temperature_2m, 0) = v
               /\ fillna(r.temp_x_area, 0) = v * r.grossarea
               /\ fillna(r.hdd, 0) = (IF v < 65 THEN 65 - v ELSE 0)
               /\ fillna(r.cdd, 0) = (IF v > 65 THEN v - 65 ELSE 0)

\* ------------------------------------------------------ model selection
\* C23: a utility is available iff its tree-ensemble file was loaded or it
\* is GAS and the sequence checkpoint was loaded; predict_all and
\* predict_building predict with the sequence model (one prediction for
\* every window of SeqLength rows) whenever it is registered for the
\* utility, and with the tree model (one for every row) otherwise; and the
\* placeholder is never what inference is run on.
C23_ModelSelection ==
    /\ Range(get_available_utilities(models, lstm_gas))
           = {u \in Utilities : u \in models \/ (u = "GAS" /\ lstm_gas)}
    /\ resp.op \in {"predict_all", "predict_building"}
       => LET u == args.utility
              sequence == u = "GAS" /\ lstm_gas
              Expected(rows) ==
                  IF ~sequence THEN rows
                  ELSE IF rows >= SeqLength THEN rows - SeqLength + 1 ELSE 0
          IN  /\ resp.status # "AttributeError"
              /\ resp.status = "ModelNotAvailableError"
                     <=> ~(u \in models \/ sequence)
              /\ resp.status = "ok" /\ resp.op = "predict_all"
                 => \A b \in Buildings :
                        resp.body.predicted[b] = Expected(resp.body.rows[b])
              /\ resp.status = "ok" /\ resp.op = "predict_building"
                 => resp.body.predicted
                        = Expected(resp.body.readingtime[2] - LagMax)

\* predict_all answered for GAS with the windows of the sequence model
\* although the tree file of GAS was loaded too
C23_Witness ==
    /\ resp.op = "predict_all"
    /\ resp.status = "ok"
    /\ args.utility = "GAS"
    /\ lstm_gas
    /\ "GAS" \in models
    /\ \E b \in Buildings : resp.body.predicted[b] < resp.body.rows[b]

\* -------------------------------------------------- weather sensitivity
\* C28: the weather sensitivity of a building is the absolute correlation
\* whenever it has at least 10 valid pairs, exactly 10 included, and the
\* correlation is defined, and 0 otherwise.
C28_SensitivityFromTenPairs ==
    resp.op = "weather_sensitivity"
        => resp.body = (IF args.valid >= 10 /\ ~IsNaN(args.corr)
                          THEN FloatAbs(args.corr)
                        ELSE 0)

\* ------------------------------------------- rounded scores and status
\* C29: for the same cache and thresholds both queries report the same
\* score and the same status for a building, and in each record the status
\* is the classification of the score of that record.
C29_StatusOfReportedScore ==
    resp.op = "score_records"
        => LET list == resp.body.get_building_scores
               detail == resp.body.get_building_detail_scores
           IN  /\ list.score = detail.score
               /\ list.status = detail.status
               /\ list.status = _status_from_score(list.score, thresholds)
               /\ detail.status = _status_from_score(detail.score, thresholds)

\* ------------------------------------------------------------ chat stream
\* C30: every run of stream_chat ends after at most MAX_TOOL_ITERATIONS LLM
\* calls, and whatever the course of its iterations the frames it emitted
\* end with the [DONE] frame, which occurs exactly once.
C30_StreamEndsWithDone ==
    resp.op = "stream_chat"
        => LET frames == resp.body.frames
           IN  /\ resp.status = "returned"
               /\ resp.body.llm_calls <= 5
               /\ frames # <<>>
               /\ frames[Len(frames)] = "done"
               /\ Cardinality({i \in 1..Len(frames) : frames[i] = "done"}) = 1

=============================================================================
